---------------------------- MODULE Spec2Model ----------------------------
(***************************************************************************)
(* A model of the X3 archive reader of x3-rust: the CRC-16 of crc.rs, and  *)
(* the archive reader of decodefile.rs (X3aReader, read_archive_header,    *)
(* parse_xml, x3a_to_wav).                                                 *)
(*                                                                         *)
(* Three specifications share the variables:                               *)
(*   SpecCrc  crc16 applied to byte slices drawn from a bounded set;       *)
(*   SpecXml  parse_xml applied to XML documents drawn from a bounded set; *)
(*   Spec     x3a_to_wav run on archive files drawn from a bounded set     *)
(*            (FairSpec is Spec with the fairness of a sequential loop).   *)
(*                                                                         *)
(* The crate's modules decoder, x3 and error are not among the sources;    *)
(* what the reader needs of them (the frame header layout, the archive     *)
(* id, Parameters::new, decode_frame) is modelled from the specification   *)
(* and marked so where it is defined.                                      *)
(***************************************************************************)
EXTENDS Integers, Sequences, FiniteSets, TLC

VARIABLES
  data,           \* SpecCrc: the byte slice handed to crc16
  crc_out,        \* SpecCrc: the value crc16 returned, NoCrc before the call
  xml,            \* the events the XML tokenizer yields for the metadata payload
  xml_out,        \* SpecXml: what parse_xml returned, NotRun before the call
  file,           \* the bytes of the .x3a file
  pc,             \* x3a_to_wav: "open", "loop", "done"; "idle" in SpecCrc and SpecXml
  pos,            \* BufReader<File>: the read position, bytes consumed so far
  remaing_bytes,  \* X3aReader.remaing_bytes
  read_buf,       \* X3aReader.read_buf, the written prefix (the rest is still 0)
  frame_errors,   \* X3aReader.frame_errors
  spec,           \* X3aReader.spec, NoSpec before open
  wav,            \* the write_samples calls made so far, one record per frame
  ret,            \* what x3a_to_wav returned, NotRun while it runs
  call            \* the last decode_next_frame call: its inputs and its outcome

vars == << data, crc_out, xml, xml_out, file, pc, pos, remaing_bytes, read_buf,
           frame_errors, spec, wav, ret, call >>

-----------------------------------------------------------------------------
(* Results: Rust's Result, with a third outcome for a panic (an unwrap of   *)
(* an Err, an index out of bounds).                                         *)

Ok(v) == [tag |-> "Ok", val |-> v]
Err(e) == [tag |-> "Err", val |-> e]
Panic == [tag |-> "Panic", val |-> "panic"]
NotRun == [tag |-> "NotRun", val |-> "none"]
None == [some |-> FALSE, n |-> 0]
Some(n) == [some |-> TRUE, n |-> n]

\* F applied to the value of e, with e evaluated once: a let binding.
Only(S) == CHOOSE x \in S : TRUE
Bind(e, F(_)) == Only({F(x) : x \in {e}})

-----------------------------------------------------------------------------
(* crc.rs                                                                   *)

\* Rust's ^ on unsigned integers.
RECURSIVE Xor(_, _)
Xor(a, b) ==
  IF a = 0 THEN b
  ELSE IF b = 0 THEN a
  ELSE 2 * Xor(a \div 2, b \div 2) + ((a + b) % 2)

\* u16 arithmetic: a value truncated to 16 bits.
U16(x) == x % 65536

\* (x as u8)
U8(x) == x % 256

CRC_TABLE == <<
     0, 4129, 8258, 12387, 16516, 20645, 24774, 28903, 33032, 37161, 41290, 45419, 49548, 53677,
     57806, 61935, 4657, 528, 12915, 8786, 21173, 17044, 29431, 25302, 37689, 33560, 45947, 41818,
     54205, 50076, 62463, 58334, 9314, 13379, 1056, 5121, 25830, 29895, 17572, 21637, 42346, 46411,
     34088, 38153, 58862, 62927, 50604, 54669, 13907, 9842, 5649, 1584, 30423, 26358, 22165, 18100,
     46939, 42874, 38681, 34616, 63455, 59390, 55197, 51132, 18628, 22757, 26758, 30887, 2112, 6241,
     10242, 14371, 51660, 55789, 59790, 63919, 35144, 39273, 43274, 47403, 23285, 19156, 31415, 27286,
     6769, 2640, 14899, 10770, 56317, 52188, 64447, 60318, 39801, 35672, 47931, 43802, 27814, 31879,
     19684, 23749, 11298, 15363, 3168, 7233, 60846, 64911, 52716, 56781, 44330, 48395, 36200, 40265,
     32407, 28342, 24277, 20212, 15891, 11826, 7761, 3696, 65439, 61374, 57309, 53244, 48923, 44858,
     40793, 36728, 37256, 33193, 45514, 41451, 53516, 49453, 61774, 57711, 4224, 161, 12482, 8419,
     20484, 16421, 28742, 24679, 33721, 37784, 41979, 46042, 49981, 54044, 58239, 62302, 689, 4752,
     8947, 13010, 16949, 21012, 25207, 29270, 46570, 42443, 38312, 34185, 62830, 58703, 54572, 50445,
     13538, 9411, 5280, 1153, 29798, 25671, 21540, 17413, 42971, 47098, 34713, 38840, 59231, 63358,
     50973, 55100, 9939, 14066, 1681, 5808, 26199, 30326, 17941, 22068, 55628, 51565, 63758, 59695,
     39368, 35305, 47498, 43435, 22596, 18533, 30726, 26663, 6336, 2273, 14466, 10403, 52093, 56156,
     60223, 64286, 35833, 39896, 43963, 48026, 19061, 23124, 27191, 31254, 2801, 6864, 10931, 14994,
     64814, 60687, 56684, 52557, 48554, 44427, 40424, 36297, 31782, 27655, 23652, 19525, 15522, 11395,
     7392, 3265, 61215, 65342, 53085, 57212, 44955, 49082, 36825, 40952, 28183, 32310, 20053, 24180,
     11923, 16050, 3793, 7920
  >>

\* The initial CRC value.
CrcInit == 65535

\* This mutant of the loop's turn indexes the table by the low byte of the
\* CRC: the shift by 8 is missing.
crc16_step_low(crc, d) ==
  LET lookup == Xor(d, U8(crc))
  IN  Xor(U16(crc * 256), CRC_TABLE[lookup + 1])

\* One turn of crc16's loop, on the byte d.
crc16_step(crc, d) ==
  LET lookup == Xor(d, U8(crc \div 256))
  IN  Xor(U16(crc * 256), CRC_TABLE[lookup + 1])

\* for d in data, over the bytes lo..hi in order. The range is halved so
\* that the evaluation's depth stays logarithmic in its length.
RECURSIVE crc16_from(_, _, _, _)
crc16_from(bytes, lo, hi, crc) ==
  IF lo > hi THEN crc
  ELSE IF lo = hi THEN crc16_step(crc, bytes[lo])
  ELSE Bind((lo + hi) \div 2, LAMBDA mid :
         Bind(crc16_from(bytes, lo, mid, crc), LAMBDA left :
           crc16_from(bytes, mid + 1, hi, left)))

crc16(data_bytes) ==
  Bind(data_bytes, LAMBDA bytes :
    Bind(Len(bytes), LAMBDA n : crc16_from(bytes, 1, n, CrcInit)))

\* test_crc: the 16 header bytes and the 150 payload bytes of the test.
TestHeader == << 120, 51, 1, 1, 39, 16, 25, 208, 0, 0, 0, 0, 0, 0, 0, 0 >>

TestPayload == <<
     242, 43, 244, 134, 176, 225, 110, 202, 154, 53, 41, 167, 81, 205, 238, 213, 201, 48, 148,
     33, 56, 218, 86, 151, 132, 68, 147, 217, 68, 96, 180, 156, 87, 52, 210, 29, 43, 105,
     17, 233, 214, 154, 70, 196, 45, 194, 62, 38, 37, 66, 216, 205, 210, 251, 102, 106, 231,
     123, 160, 87, 139, 32, 66, 210, 103, 246, 103, 250, 229, 90, 214, 25, 23, 25, 121, 245,
     252, 219, 56, 179, 155, 134, 95, 205, 47, 165, 245, 58, 204, 98, 110, 163, 147, 235, 67,
     182, 41, 170, 98, 197, 7, 160, 253, 19, 221, 64, 36, 47, 73, 196, 133, 250, 207, 210,
     131, 20, 45, 58, 51, 14, 78, 248, 17, 122, 252, 128, 62, 244, 110, 43, 72, 99, 128,
     54, 253, 9, 236, 9, 47, 88, 54, 8, 52, 15, 184, 31, 96, 63, 23, 197
  >>

-----------------------------------------------------------------------------
(* Texts. A &str is a sequence of one-character strings, so that split and  *)
(* parse work on the characters as the Rust functions do.                   *)

DigitChars == << "0", "1", "2", "3", "4", "5", "6", "7", "8", "9" >>

IsDigit(c) == \E i \in 1..10 : DigitChars[i] = c

DigitVal(c) == (CHOOSE i \in 1..10 : DigitChars[i] = c) - 1

RECURSIVE StripZeros(_)
StripZeros(ds) ==
  IF ds # << >> /\ ds[1] = "0" THEN StripZeros(Tail(ds)) ELSE ds

\* ds > max, for digit sequences of the same length.
RECURSIVE DigitsGreater(_, _)
DigitsGreater(ds, max) ==
  IF ds = << >> THEN FALSE
  ELSE IF DigitVal(ds[1]) # DigitVal(max[1]) THEN DigitVal(ds[1]) > DigitVal(max[1])
  ELSE DigitsGreater(Tail(ds), Tail(max))

\* The checked multiply-and-add of the parse overflows exactly when the
\* number written exceeds the type's maximum.
Overflows(ds, max) ==
  Bind(StripZeros(ds), LAMBDA s :
    Len(s) > Len(max) \/ (Len(s) = Len(max) /\ DigitsGreater(s, max)))

RECURSIVE DigitsValue(_, _)
DigitsValue(ds, acc) ==
  IF ds = << >> THEN acc ELSE DigitsValue(Tail(ds), 10 * acc + DigitVal(ds[1]))

U32MaxDigits == << "4", "2", "9", "4", "9", "6", "7", "2", "9", "5" >>

\* usize::MAX of a 64-bit target.
UsizeMaxDigits == << "1", "8", "4", "4", "6", "7", "4", "4", "0", "7", "3", "7", "0", "9", "5", "5", "1", "6", "1", "5" >>

\* str::parse::<u32> and str::parse::<usize>: an optional '+', then one or
\* more decimal digits, the value within the type; anything else is an Err.
ParseUnsigned(text, max) ==
  IF text = << >> THEN Err("ParseIntError")
  ELSE Bind(IF text[1] = "+" THEN Tail(text) ELSE text, LAMBDA ds :
         IF ds = << >> \/ \E i \in 1..Len(ds) : ~IsDigit(ds[i])
           THEN Err("ParseIntError")
         ELSE IF Overflows(ds, max) THEN Err("ParseIntError")
         ELSE Ok(DigitsValue(ds, 0)))

\* str::split(sep): the pieces between the separators, empty ones included;
\* a text without separator is one piece.
RECURSIVE Split(_, _)
Split(str, sep) ==
  Bind(str, LAMBDA text :
    IF \A i \in 1..Len(text) : text[i] # sep THEN << text >>
    ELSE Bind(CHOOSE i \in 1..Len(text) :
                text[i] = sep /\ \A j \in 1..(i - 1) : text[j] # sep,
              LAMBDA k :
                << SubSeq(text, 1, k - 1) >>
                  \o Split(SubSeq(text, k + 1, Len(text)), sep)))

RICE0 == << "R", "I", "C", "E", "0" >>
RICE1 == << "R", "I", "C", "E", "1" >>
RICE2 == << "R", "I", "C", "E", "2" >>
RICE3 == << "R", "I", "C", "E", "3" >>
BFP == << "B", "F", "P" >>

-----------------------------------------------------------------------------
(* x3::Parameters, from the specification (x3.rs is not among the sources). *)

DEFAULT_BLOCKS_PER_FRAME == 500

\* Parameters::new: block_len > 0 and the thresholds strictly increasing,
\* the codes and thresholds stored as given.
ParametersNew(block_len, blocks_per_frame, codes, thresholds) ==
  IF block_len > 0 /\ thresholds[1] < thresholds[2] /\ thresholds[2] < thresholds[3]
    THEN Ok([block_len |-> block_len, blocks_per_frame |-> blocks_per_frame,
             rice_codes |-> codes, thresholds |-> thresholds])
    ELSE Err("ArchiveHeaderInvalid")

-----------------------------------------------------------------------------
(* decodefile.rs: parse_xml                                                 *)
(*                                                                          *)
(* The tokenizer (quick_xml) is outside the program: a document is the      *)
(* sequence of events read_event yields before Eof. A Start event carries   *)
(* the element's name and what read_text returns for it.                    *)

StartEvent(name, text) == [kind |-> "Start", name |-> name, text |-> text]
ErrEvent == [kind |-> "Err", name |-> "", text |-> NotRun]
OtherEvent == [kind |-> "Other", name |-> "", text |-> NotRun]

NoTexts == [FS |-> << >>, BLKLEN |-> << >>, CODES |-> << >>, T |-> << >>]

\* The event loop: the texts of the FS, BLKLEN, CODES and T elements in the
\* order met. An Err event ends the parse; read_text(..).unwrap() panics.
RECURSIVE scan_events(_, _, _)
scan_events(events, i, acc) ==
  IF i > Len(events) THEN Ok(acc)
  ELSE LET e == events[i]
       IN  IF e.kind = "Err" THEN Err("ArchiveHeaderXMLInvalid")
           ELSE IF e.kind = "Start" /\ e.name \in {"FS", "BLKLEN", "CODES", "T"}
             THEN IF e.text.tag # "Ok" THEN Panic
                  ELSE scan_events(events, i + 1,
                                   [acc EXCEPT ![e.name] = Append(@, e.text.val)])
           ELSE scan_events(events, i + 1, acc)

\* The match on one word of CODES: a BFP word pushes a code as well.
push_code_bfp(ids, word) ==
  IF word = RICE0 THEN Ok(Append(ids, 0))
  ELSE IF word = RICE1 THEN Ok(Append(ids, 1))
  ELSE IF word = RICE2 THEN Ok(Append(ids, 2))
  ELSE IF word = RICE3 THEN Ok(Append(ids, 3))
  ELSE IF word = BFP THEN Ok(Append(ids, 0))
  ELSE Err("ArchiveHeaderXMLRiceCode")

\* The match on one word of CODES.
push_code(ids, word) ==
  IF word = RICE0 THEN Ok(Append(ids, 0))
  ELSE IF word = RICE1 THEN Ok(Append(ids, 1))
  ELSE IF word = RICE2 THEN Ok(Append(ids, 2))
  ELSE IF word = RICE3 THEN Ok(Append(ids, 3))
  ELSE IF word = BFP THEN Ok(ids)
  ELSE Err("ArchiveHeaderXMLRiceCode")

\* for word in codes[0].split(',')
RECURSIVE rice_code_ids(_, _, _)
rice_code_ids(words, i, ids) ==
  IF i > Len(words) THEN Ok(ids)
  ELSE Bind(push_code(ids, words[i]), LAMBDA r :
         IF r.tag # "Ok" THEN r ELSE rice_code_ids(words, i + 1, r.val))

\* th[0].split(',').map(|s| s.parse::<usize>().unwrap()).collect()
RECURSIVE parse_thresholds(_, _, _)
parse_thresholds(words, i, out) ==
  IF i > Len(words) THEN Ok(out)
  ELSE Bind(ParseUnsigned(words[i], UsizeMaxDigits), LAMBDA r :
         IF r.tag # "Ok" THEN Panic
         ELSE parse_thresholds(words, i + 1, Append(out, r.val)))

\* parse_xml from the thresholds on.
parse_params(sample_rate, block_len, codes, th_text) ==
  Bind(parse_thresholds(Split(th_text, ","), 1, << >>), LAMBDA thresholds :
    IF thresholds.tag # "Ok" THEN Panic                              \* unwrap
    ELSE IF Len(codes) < 3 \/ Len(thresholds.val) < 3
      THEN Panic                                    \* rice_code_ids[i], thresholds[i]
    ELSE
      Bind(ParametersNew(block_len, DEFAULT_BLOCKS_PER_FRAME,
                         SubSeq(codes, 1, 3), SubSeq(thresholds.val, 1, 3)),
           LAMBDA params :
             IF params.tag # "Ok" THEN params
             ELSE Ok([sample_rate |-> sample_rate, params |-> params.val])))

\* The part of parse_xml after the event loop, on the texts collected.
parse_texts(v) ==
  IF v.FS = << >> \/ v.BLKLEN = << >> \/ v.CODES = << >> \/ v.T = << >>
    THEN Panic                                      \* fs[0], bl[0], codes[0], th[0]
  ELSE
    Bind(ParseUnsigned(v.FS[1], U32MaxDigits), LAMBDA sample_rate :
      Bind(ParseUnsigned(v.BLKLEN[1], U32MaxDigits), LAMBDA block_len :
        IF sample_rate.tag # "Ok" \/ block_len.tag # "Ok" THEN Panic  \* unwrap
        ELSE
          Bind(rice_code_ids(Split(v.CODES[1], ","), 1, << >>), LAMBDA codes :
            IF codes.tag # "Ok" THEN codes
            ELSE parse_params(sample_rate.val, block_len.val, codes.val, v.T[1]))))

parse_xml(events) ==
  Bind(scan_events(events, 1, NoTexts), LAMBDA scanned :
    IF scanned.tag # "Ok" THEN scanned ELSE Bind(scanned.val, parse_texts))


-----------------------------------------------------------------------------
(* x3::Archive, x3::FrameHeader and decoder::read_frame_header, from the    *)
(* specification (x3.rs and decoder.rs are not among the sources).          *)

\* x3::Archive::ID, the archive magic "X3ARCHIV".
ArchiveID == << 88, 51, 65, 82, 67, 72, 73, 86 >>

\* x3::FrameHeader::LENGTH
LENGTH == 20

\* The frame magic "x3".
FrameMagic == << 120, 51 >>

\* A big-endian u16 at the 0-based offset off.
BE16(buf, off) == buf[off + 1] * 256 + buf[off + 2]

\* decoder::read_frame_header on the 20 header bytes: the magic, the fields
\* at their offsets, the header CRC over the first 16 bytes.
decoder_read_frame_header(buf) ==
  IF SubSeq(buf, 1, 2) # FrameMagic THEN Err("FrameHeaderBadMagic")
  ELSE IF crc16(SubSeq(buf, 1, 16)) # BE16(buf, 16)
    THEN Err("FrameHeaderInvalidHeaderCRC")
  ELSE Ok([channels |-> BE16(buf, 2), payload_len |-> BE16(buf, 4),
           samples |-> BE16(buf, 6), payload_crc |-> BE16(buf, 18)])

\* decoder::decode_frame, as far as the reader sees it: the payload opens
\* with the 16-bit reference sample, which a payload under two bytes cannot
\* hold (the bit reader runs out); a payload that decodes yields the
\* header's sample count.
decode_frame(x3_bytes, samples) ==
  IF Len(x3_bytes) < 2 THEN Err("EndOfStream") ELSE Ok(Some(samples))

-----------------------------------------------------------------------------
(* decodefile.rs: X3aReader                                                 *)

X3_READ_BUFFER_SIZE == 1024 * 24

\* Read::read_exact on the file at position p: n bytes, or UnexpectedEof
\* with the bytes that were left.
read_exact(f, p, n) ==
  IF p + n <= Len(f)
    THEN [ok |-> TRUE, bytes |-> SubSeq(f, p + 1, p + n), pos |-> p + n]
    ELSE [ok |-> FALSE, bytes |-> SubSeq(f, p + 1, Len(f)), pos |-> Len(f)]

\* read_buf[0..n]: read_buf is zero beyond the prefix written so far.
BufSlice(buf, n) == [i \in 1..n |-> IF i <= Len(buf) THEN buf[i] ELSE 0]

\* read_buf after bytes were read into its start.
BufFill(buf, bytes) == bytes \o SubSeq(buf, Len(bytes) + 1, Len(buf))

\* The reader's state: the fields of X3aReader that change, and the file
\* position of its BufReader.
Reader(p, rem, buf, errs) ==
  [pos |-> p, remaing_bytes |-> rem, read_buf |-> buf, frame_errors |-> errs]

Out(r, res, trace) == [r |-> r, res |-> res, trace |-> trace]

\* What a decode_next_frame call did on its way: the header it parsed, and
\* the slice it handed to decoder::decode_frame.
NoTrace == [header |-> NotRun, payload_read |-> FALSE, decoded |-> FALSE,
            x3_bytes |-> << >>, decode_res |-> NotRun]

read_bytes(f, r, len) ==
  Bind(IF r.remaing_bytes < len THEN r.remaing_bytes ELSE len, LAMBDA buf_len :
    Bind(read_exact(f, r.pos, buf_len), LAMBDA rd :
      [r |-> [r EXCEPT !.remaing_bytes = @ - buf_len,
                       !.pos = rd.pos,
                       !.read_buf = BufFill(@, rd.bytes)],
       res |-> IF rd.ok THEN Ok("unit") ELSE Err("Io")]))

read_frame_header(f, r) ==
  Bind(read_bytes(f, r, LENGTH), LAMBDA rb :
    IF rb.res.tag # "Ok" THEN rb
    ELSE [r |-> rb.r,
          res |-> Bind(BufSlice(rb.r.read_buf, LENGTH), decoder_read_frame_header)])

\* This mutant of the payload CRC comparison accepts every payload.
payload_crc_unchecked(payload, header) == FALSE

\* crc != header.payload_crc
payload_crc_differs(payload, header) == crc16(payload) # header.payload_crc

read_frame_payload(f, r, header) ==
  Bind(read_bytes(f, r, header.payload_len), LAMBDA rb :
    IF rb.res.tag # "Ok" THEN rb
    ELSE IF payload_crc_differs(BufSlice(rb.r.read_buf, header.payload_len), header)
      THEN [r |-> rb.r, res |-> Err("FrameHeaderInvalidPayloadCRC")]
    ELSE [r |-> rb.r, res |-> Ok("unit")])

\* This mutant of the end-of-file test lets a call with exactly LENGTH bytes
\* left go on to read.
end_of_file_strict(remaing) == remaing < LENGTH

\* self.remaing_bytes <= x3::FrameHeader::LENGTH
end_of_file(remaing) == remaing <= LENGTH

\* decode_next_frame from the call of decoder::decode_frame on: r is the
\* reader after the payload was read and checked, t the trace so far.
decode_payload(r, frame_header, t) ==
  Bind(BufSlice(r.read_buf, frame_header.payload_len), LAMBDA x3_bytes :
    Bind(decode_frame(x3_bytes, frame_header.samples), LAMBDA d :
      Bind([t EXCEPT !.decoded = TRUE, !.x3_bytes = x3_bytes, !.decode_res = d],
           LAMBDA td :
        IF d.tag = "Ok" THEN Out(r, Ok(d.val), td)
        ELSE Out([r EXCEPT !.frame_errors = @ + 1], Ok(None), td))))

\* decode_next_frame from the header on: r is the reader after the header
\* was read, frame_header the header parsed.
decode_body(f, r, frame_header, t) ==
  IF r.remaing_bytes < frame_header.payload_len THEN Out(r, Ok(None), t)
  ELSE IF frame_header.payload_len > X3_READ_BUFFER_SIZE
    THEN Out(r, Err("FrameHeaderInvalidPayloadLen"), t)
  ELSE
    Bind(read_frame_payload(f, r, frame_header), LAMBDA p :
      IF p.res.tag # "Ok"
        THEN Out(p.r, p.res,
                 [t EXCEPT !.payload_read = (p.res.val = "FrameHeaderInvalidPayloadCRC")])
        ELSE decode_payload(p.r, frame_header, [t EXCEPT !.payload_read = TRUE]))

decode_next_frame(f, r) ==
  IF end_of_file(r.remaing_bytes) THEN Out(r, Ok(None), NoTrace)
  ELSE
    Bind(read_frame_header(f, r), LAMBDA h :
      IF h.res.tag # "Ok" THEN Out(h.r, h.res, NoTrace)
      ELSE decode_body(f, h.r, h.res.val, [NoTrace EXCEPT !.header = h.res]))

\* let header_size = x3::FrameHeader::LENGTH + payload.len();
header_size_of(payload) == LENGTH + Len(payload)

\* read_archive_header from the XML payload on: header is the metadata
\* frame's header, p the position after it.
read_metadata(f, p, header, events) ==
  Bind(read_exact(f, p, header.payload_len), LAMBDA payload :
    IF ~payload.ok THEN Err("Io")
    ELSE
      Bind(parse_xml(events), LAMBDA parsed :
        IF parsed.tag # "Ok" THEN parsed
        ELSE Ok([spec |-> [sample_rate |-> parsed.val.sample_rate,
                           params |-> parsed.val.params,
                           channels |-> header.channels],
                 header_size |-> header_size_of(payload.bytes),
                 pos |-> payload.pos])))

\* read_archive_header on the file from offset 0; events is what the
\* tokenizer yields for the XML payload. Ok carries the spec, the size
\* returned and the position the reader is left at.
read_archive_header(f, events) ==
  Bind(read_exact(f, 0, Len(ArchiveID)), LAMBDA id :
    IF ~id.ok THEN Err("Io")
    ELSE IF id.bytes # ArchiveID THEN Err("ArchiveHeaderXMLInvalidKey")
    ELSE
      Bind(read_exact(f, id.pos, LENGTH), LAMBDA hb :
        IF ~hb.ok THEN Err("Io")
        ELSE
          Bind(decoder_read_frame_header(hb.bytes), LAMBDA header :
            IF header.tag # "Ok" THEN header
            ELSE read_metadata(f, hb.pos, header.val, events))))

\* X3aReader::open on an existing file.
X3aReader_open(f, events) ==
  Bind(read_archive_header(f, events), LAMBDA h :
    IF h.tag # "Ok" THEN h
    ELSE Ok([spec |-> h.val.spec,
             r |-> Reader(h.val.pos, Len(f) - h.val.header_size, << >>, 0)]))

-----------------------------------------------------------------------------
(* Bounds of the inputs.                                                    *)

\* Byte slices for crc16: up to this many bytes of CrcBytes.
MaxCrcLen == 3

\* CODES and T texts: up to this many comma-separated words.
MaxWords == 4

\* Archives: up to this many frames after the XML metadata frame.
MaxFrames == 3

\* Archives: truncated by up to this many bytes at the end.
MaxCut == 12

-----------------------------------------------------------------------------
(* Inputs of SpecCrc.                                                       *)

\* All sequences over S of length 0..n.
RECURSIVE SeqsUpTo(_, _)
SeqsUpTo(S, n) ==
  IF n = 0 THEN {<< >>}
  ELSE LET shorter == SeqsUpTo(S, n - 1)
       IN  shorter \cup {Append(s, x) : s \in {q \in shorter : Len(q) = n - 1}, x \in S}

CrcBytes == {0, 1, 33, 128, 255}

CrcInputs ==
  SeqsUpTo(CrcBytes, MaxCrcLen) \cup {<< b >> : b \in 0..255}
    \cup {TestHeader, TestPayload}

-----------------------------------------------------------------------------
(* Inputs of SpecXml: documents as the events they yield.                   *)

RECURSIVE JoinWords(_)
JoinWords(words) ==
  IF Len(words) = 1 THEN words[1]
  ELSE words[1] \o << "," >> \o JoinWords(Tail(words))

\* The words parse_xml's match names, and one it does not.
CodeWords == {RICE0, RICE1, RICE2, RICE3, BFP}
UnknownWord == << "R", "I", "C", "E", "4" >>

NumberWords == {<< "3" >>, << "8" >>, << "2", "0" >>, << "x" >>}

NumberTexts ==
  {<< "4", "8", "0", "0", "0" >>,
   << "2", "0" >>,
   << "0" >>,
   << "0", "0", "7" >>,
   << "+", "7" >>,
   << "+" >>,
   << "-", "1" >>,
   << "4", "x" >>,
   << >>,
   << "4", "2", "9", "4", "9", "6", "7", "2", "9", "6" >>,
   << "1", "8", "4", "4", "6", "7", "4", "4", "0", "7", "3", "7", "0", "9", "5", "5", "1", "6", "1", "6" >>}

FsText == << "4", "8", "0", "0", "0" >>
BlkLenText == << "2", "0" >>
CodesText == << "R", "I", "C", "E", "0", ",", "R", "I", "C", "E", "1", ",", "R", "I", "C", "E", "2", ",", "B", "F", "P" >>
ThText == << "3", ",", "8", ",", "2", "0" >>

\* The events of <X3ARCH> holding, in order, one FS, BLKLEN, CODES and T
\* element for each text of the four sequences.
RECURSIVE Elements(_, _)
Elements(name, texts) ==
  IF texts = << >> THEN << >>
  ELSE << StartEvent(name, Ok(texts[1])), OtherEvent >> \o Elements(name, Tail(texts))

Doc(fs, bl, codes, th) ==
  << StartEvent("X3ARCH", NotRun) >> \o Elements("FS", fs) \o Elements("BLKLEN", bl)
    \o Elements("CODES", codes) \o Elements("T", th) \o << OtherEvent >>

GoodDoc == Doc(<< FsText >>, << BlkLenText >>, << CodesText >>, << ThText >>)

WordTexts(words) == {JoinWords(ws) : ws \in SeqsUpTo(words, MaxWords) \ {<< >>}}

\* One or no occurrence of a text.
Opt(text) == {<< >>, << text >>}

XmlDocs ==
  {Doc(<< FsText >>, << BlkLenText >>, << c >>, << ThText >>) : c \in WordTexts(CodeWords)}
    \cup {Doc(<< FsText >>, << BlkLenText >>, << CodesText >>, << th >>) :
            th \in WordTexts(NumberWords)}
    \cup {Doc(<< fs >>, << bl >>, << CodesText >>, << ThText >>) :
            fs \in NumberTexts, bl \in NumberTexts}
    \cup {Doc(fs, bl, c, th) : fs \in Opt(FsText), bl \in Opt(BlkLenText),
                               c \in Opt(CodesText), th \in Opt(ThText)}
    \cup {Doc(<< FsText, BlkLenText >>, << BlkLenText >>, << CodesText, RICE0 >>, << ThText >>),
          GoodDoc \o << ErrEvent >>,
          << ErrEvent >> \o GoodDoc,
          << StartEvent("FS", Err("TextNotFound")) >> \o GoodDoc,
          Doc(<< FsText >>, << BlkLenText >>, << << >> >>, << ThText >>),
          Doc(<< FsText >>, << BlkLenText >>, << RICE0 \o << ",", "," >> \o RICE1 >>, << ThText >>),
          Doc(<< FsText >>, << BlkLenText >>, << CodesText >>, << << >> >>),
          Doc(<< FsText >>, << BlkLenText >>, << CodesText >>, << << "3", ",", ",", "8" >> >>),
          Doc(<< FsText >>, << BlkLenText >>, << CodesText >>, << ThText \o << "," >> >>),
          << >>}
    \cup {Doc(<< FsText >>, << BlkLenText >>, << JoinWords(ws) >>, << ThText >>) :
            ws \in {<< UnknownWord >>,
                    << UnknownWord, RICE0, RICE1, RICE2 >>,
                    << RICE0, UnknownWord >>,
                    << RICE0, RICE1, RICE2, UnknownWord >>,
                    << BFP, UnknownWord, BFP >>}}

-----------------------------------------------------------------------------
(* Inputs of Spec: archive files.                                           *)

Bytes16(x) == << x \div 256, x % 256 >>

\* A frame header as an encoder writes it: source id 1, no time.
MkHeader(payload_len, samples, payload_crc) ==
  LET head == FrameMagic \o << 0, 1 >> \o Bytes16(payload_len) \o Bytes16(samples)
                \o << 0, 0, 0, 0, 0, 0, 0, 0 >>
  IN  head \o Bytes16(crc16(head)) \o Bytes16(payload_crc)

MkFrame(payload, samples) == MkHeader(Len(payload), samples, crc16(payload)) \o payload

GoodPayload == << 16, 32, 48 >>

\* The frames: a good one; one whose payload has a flipped bit; one whose
\* header has a flipped bit in its time field; one with a wrong magic; one
\* whose payload is too short to decode; one whose payload_len exceeds the
\* read buffer, with its payload.
GoodFrame == MkFrame(GoodPayload, 2)
PayloadCrcFrame == MkHeader(Len(GoodPayload), 2, crc16(GoodPayload)) \o << 16, 33, 48 >>
HeaderCrcFrame == [GoodFrame EXCEPT ![9] = 1]
MagicFrame == [GoodFrame EXCEPT ![1] = 88]
ShortFrame == MkFrame(<< 7 >>, 2)
OversizeFrame ==
  MkHeader(X3_READ_BUFFER_SIZE + 1, 2, 0) \o [i \in 1..(X3_READ_BUFFER_SIZE + 1) |-> 0]

FrameOf(kind) ==
  CASE kind = "good" -> GoodFrame
    [] kind = "payload_crc" -> PayloadCrcFrame
    [] kind = "header_crc" -> HeaderCrcFrame
    [] kind = "magic" -> MagicFrame
    [] kind = "short" -> ShortFrame
    [] kind = "oversize" -> OversizeFrame

FrameKinds == {"good", "payload_crc", "header_crc", "magic", "short"}

\* Up to MaxFrames frames of which at most one is not good (the loop ends
\* at the first such frame); an oversize frame, which is long, only as the
\* last frame, alone or after a good one.
FrameLists ==
  {s \in SeqsUpTo(FrameKinds, MaxFrames) :
     Cardinality({i \in 1..Len(s) : s[i] # "good"}) <= 1}
    \cup {<< "oversize" >>, << "good", "oversize" >>}

RECURSIVE Frames(_)
Frames(kinds) ==
  IF kinds = << >> THEN << >> ELSE FrameOf(kinds[1]) \o Frames(Tail(kinds))

\* The XML payload's bytes; the tokenizer's events for them are the input xml.
XmlPayload == << 60, 88, 47, 62 >>

ArchiveHead(id) == id \o MkFrame(XmlPayload, 0)

Truncated(f, cut) == SubSeq(f, 1, IF cut < Len(f) THEN Len(f) - cut ELSE 0)

\* The archives: every frame list under the good head and the good
\* document, truncated or not; and the bad heads and documents.
Archives ==
  {[file |-> Truncated(ArchiveHead(ArchiveID) \o Frames(ks), cut), xml |-> GoodDoc] :
     ks \in FrameLists, cut \in 0..MaxCut}
    \cup {[file |-> ArchiveHead([ArchiveID EXCEPT ![1] = 120]) \o Frames(<< "good" >>),
           xml |-> GoodDoc],
          [file |-> ArchiveID \o [MkFrame(XmlPayload, 0) EXCEPT ![9] = 1]
                      \o Frames(<< "good" >>),
           xml |-> GoodDoc]}
    \cup {[file |-> ArchiveHead(ArchiveID) \o Frames(<< "good" >>), xml |-> d] :
            d \in {Doc(<< FsText >>, << BlkLenText >>, << CodesText >>, << >>),
                   GoodDoc \o << ErrEvent >>,
                   Doc(<< FsText >>, << BlkLenText >>, << RICE0 >>, << ThText >>)}}

-----------------------------------------------------------------------------
(* The specifications.                                                      *)

NoCrc == 0 - 1
NoSpec == [sample_rate |-> 0]
NoCall == [n |-> 0, before |-> Reader(0, 0, << >>, 0), res |-> NotRun, trace |-> NoTrace]

Idle ==
  /\ pc = "idle" /\ pos = 0 /\ remaing_bytes = 0 /\ read_buf = << >>
  /\ frame_errors = 0 /\ spec = NoSpec /\ wav = << >> /\ ret = NotRun /\ call = NoCall

InitCrc ==
  /\ data \in CrcInputs
  /\ crc_out = NoCrc
  /\ xml = << >> /\ xml_out = NotRun /\ file = << >>
  /\ Idle

\* A call of crc16.
Crc16Call ==
  /\ pc = "idle" /\ crc_out = NoCrc
  /\ crc_out' = crc16(data)
  /\ UNCHANGED << data, xml, xml_out, file, pc, pos, remaing_bytes, read_buf,
                  frame_errors, spec, wav, ret, call >>

SpecCrc == InitCrc /\ [][Crc16Call]_vars

InitXml ==
  /\ xml \in XmlDocs
  /\ xml_out = NotRun
  /\ data = << >> /\ crc_out = NoCrc /\ file = << >>
  /\ Idle

\* A call of parse_xml.
ParseXmlCall ==
  /\ pc = "idle" /\ xml_out = NotRun
  /\ xml_out' = parse_xml(xml)
  /\ UNCHANGED << data, crc_out, xml, file, pc, pos, remaing_bytes, read_buf,
                  frame_errors, spec, wav, ret, call >>

SpecXml == InitXml /\ [][ParseXmlCall]_vars

Init ==
  /\ \E a \in Archives : file = a.file /\ xml = a.xml
  /\ data = << >> /\ crc_out = NoCrc /\ xml_out = NotRun
  /\ pc = "open" /\ pos = 0 /\ remaing_bytes = 0 /\ read_buf = << >>
  /\ frame_errors = 0 /\ spec = NoSpec /\ wav = << >> /\ ret = NotRun /\ call = NoCall

\* x3a_to_wav up to its loop: X3aReader::open, and the WAV writer created.
Open ==
  /\ pc = "open"
  /\ \E o \in {X3aReader_open(file, xml)} :
         IF o.tag = "Ok"
           THEN /\ pc' = "loop"
                /\ pos' = o.val.r.pos
                /\ remaing_bytes' = o.val.r.remaing_bytes
                /\ read_buf' = o.val.r.read_buf
                /\ frame_errors' = o.val.r.frame_errors
                /\ spec' = o.val.spec
                /\ ret' = ret
           ELSE /\ pc' = "done"
                /\ ret' = o
                /\ UNCHANGED << pos, remaing_bytes, read_buf, frame_errors, spec >>
  /\ UNCHANGED << data, crc_out, xml, xml_out, file, wav, call >>

\* One turn of x3a_to_wav's loop: decode_next_frame, then write_samples on
\* Some, the end of the loop on None, the return of the error on Err.
DecodeStep ==
  /\ pc = "loop"
  /\ \E r \in {Reader(pos, remaing_bytes, read_buf, frame_errors)} :
       \E o \in {decode_next_frame(file, r)} :
         /\ pos' = o.r.pos
         /\ remaing_bytes' = o.r.remaing_bytes
         /\ read_buf' = o.r.read_buf
         /\ frame_errors' = o.r.frame_errors
         /\ call' = [n |-> call.n + 1, before |-> [r EXCEPT !.read_buf = << >>],
                     res |-> o.res, trace |-> o.trace]
         /\ IF o.res.tag = "Ok" /\ o.res.val.some
              THEN /\ wav' = Append(wav, [pos |-> pos, samples |-> o.res.val.n])
                   /\ pc' = "loop"
                   /\ ret' = ret
              ELSE /\ wav' = wav
                   /\ pc' = "done"
                   /\ ret' = IF o.res.tag = "Ok" THEN Ok("unit") ELSE o.res
  /\ UNCHANGED << data, crc_out, xml, xml_out, file, spec >>

Next == Open \/ DecodeStep

Spec == Init /\ [][Next]_vars

\* x3a_to_wav is sequential code: a step that can be taken is taken.
FairSpec == Init /\ [][Next]_vars /\ WF_vars(Next)


-----------------------------------------------------------------------------
(* C1: crc16 is CRC-16/CCITT-FALSE.                                         *)

\* The reference, bit by bit: the register shifted left by one, the
\* polynomial 0x1021 xored in when the bit shifted out is 1.
RefBit(crc) ==
  IF crc >= 32768 THEN Xor(U16(crc * 2), 4129) ELSE U16(crc * 2)

RECURSIVE RefBits(_, _)
RefBits(crc, k) ==
  IF k = 0 THEN crc ELSE Bind(RefBit(crc), LAMBDA c : RefBits(c, k - 1))

\* A byte enters at the top of the register, most significant bit first.
RefByte(crc, d) == RefBits(Xor(crc, d * 256), 8)

RECURSIVE RefFrom(_, _, _, _)
RefFrom(bytes, lo, hi, crc) ==
  IF lo > hi THEN crc
  ELSE IF lo = hi THEN RefByte(crc, bytes[lo])
  ELSE Bind((lo + hi) \div 2, LAMBDA mid :
         Bind(RefFrom(bytes, lo, mid, crc), LAMBDA left :
           RefFrom(bytes, mid + 1, hi, left)))

RefCrc(bytes) == RefFrom(bytes, 1, Len(bytes), 65535)

\* C1: for every byte slice, the empty one included, crc16 returns the
\* CRC-16/CCITT-FALSE of the slice computed bit by bit (polynomial 0x1021,
\* initial value 0xFFFF, most significant bit first, no final xor, 16 bits);
\* every table entry i is the bitwise remainder of the byte i; the 16 header
\* bytes of the test give 0xADDB and its 150 payload bytes give 2073.
C1_Crc16IsCcittFalse ==
  crc_out # NoCrc =>
    /\ crc_out = RefCrc(data)
    /\ crc_out \in 0..65535
    /\ Len(data) = 1 => CRC_TABLE[data[1] + 1] = RefBits(data[1] * 256, 8)
    /\ data = TestHeader => crc_out = 44507
    /\ data = TestPayload => crc_out = 2073

\* crc16 has returned for the 150-byte payload of the test.
C1_Witness == crc_out # NoCrc /\ data = TestPayload

-----------------------------------------------------------------------------
(* C7, C8: parse_xml.                                                       *)

\* The texts of the elements called name, in document order.
RECURSIVE TextsOf(_, _)
TextsOf(events, name) ==
  IF events = << >> THEN << >>
  ELSE (IF events[1].kind = "Start" /\ events[1].name = name
          THEN << events[1].text.val >> ELSE << >>)
         \o TextsOf(Tail(events), name)

\* The tokenizer met no error in the document.
Tokenized(events) ==
  \A i \in 1..Len(events) :
    /\ events[i].kind # "Err"
    /\ (events[i].kind = "Start" /\ events[i].name \in {"FS", "BLKLEN", "CODES", "T"})
         => events[i].text.tag = "Ok"

IsDecimal(text) == text # << >> /\ \A i \in 1..Len(text) : IsDigit(text[i])

RiceWords == {RICE0, RICE1, RICE2, RICE3}

\* The numbers of the Rice words among words, in their order; the number of
\* RICEn is n.
RECURSIVE RiceNumbers(_)
RiceNumbers(words) ==
  IF words = << >> THEN << >>
  ELSE (IF words[1] \in RiceWords THEN << DigitVal(words[1][5]) >> ELSE << >>)
         \o RiceNumbers(Tail(words))

\* The document lacks one of FS, BLKLEN, CODES, T, or its FS, BLKLEN or an
\* entry of T is no decimal integer, or CODES or T has under three entries.
Malformed(events) ==
  LET fs == TextsOf(events, "FS")
      bl == TextsOf(events, "BLKLEN")
      codes == TextsOf(events, "CODES")
      th == TextsOf(events, "T")
  IN  \/ fs = << >> \/ bl = << >> \/ codes = << >> \/ th = << >>
      \/ ~IsDecimal(fs[1]) \/ ~IsDecimal(bl[1])
      \/ \E w \in {Split(th[1], ",")[i] : i \in 1..Len(Split(th[1], ","))} : ~IsDecimal(w)
      \/ Len(Split(th[1], ",")) < 3
      \/ Len(Split(codes[1], ",")) < 3

\* C7: for every XML payload that lacks one of FS, BLKLEN, CODES, T, or whose
\* FS, BLKLEN or a T entry is no decimal integer, or whose CODES or T holds
\* under three entries, parse_xml returns the archive-header-invalid error:
\* it neither panics nor returns a spec.
C7_MalformedXmlIsAnError ==
  (xml_out # NotRun /\ Tokenized(xml) /\ Malformed(xml)) =>
    /\ xml_out.tag = "Err"
    /\ xml_out.val \in {"ArchiveHeaderInvalid", "ArchiveHeaderXMLInvalid"}

\* The document is <FS>48000</FS><BLKLEN>20</BLKLEN><CODES>..</CODES>
\* <T>3,8,20</T> and the words of its CODES are among RICE0..RICE3 and BFP.
CodesDoc(events) ==
  /\ Len(TextsOf(events, "CODES")) = 1
  /\ events = Doc(<< FsText >>, << BlkLenText >>, TextsOf(events, "CODES"), << ThText >>)
  /\ LET words == Split(TextsOf(events, "CODES")[1], ",")
     IN  \A i \in 1..Len(words) : words[i] \in RiceWords \cup {BFP}

CodesWords(events) == Split(TextsOf(events, "CODES")[1], ",")

-----------------------------------------------------------------------------
(* C2..C6, C9, C10: the reader.                                             *)

\* The header that stands in the file at the position p.
HeaderAt(p) == Bind(SubSeq(file, p + 1, p + LENGTH), decoder_read_frame_header)

\* C2: decoder::decode_frame is called only on a validated payload: the
\* slice it gets is the payload_len bytes that follow this call's frame
\* header in the file, payload_len is at most X3_READ_BUFFER_SIZE, and the
\* CRC-16 of the slice is the payload CRC of the header; a payload read
\* whose CRC differs ends the call with FrameHeaderInvalidPayloadCRC, and
\* nothing is decoded.
C2_DecodeOnlyValidatedPayload ==
  call.n > 0 =>
    LET start == call.before.pos + LENGTH
        h == call.trace.header.val
    IN  /\ call.trace.decoded =>
             /\ call.trace.header = HeaderAt(call.before.pos)
             /\ Len(call.trace.x3_bytes) = h.payload_len
             /\ start + h.payload_len <= Len(file)
             /\ call.trace.x3_bytes = SubSeq(file, start + 1, start + h.payload_len)
             /\ h.payload_len <= X3_READ_BUFFER_SIZE
             /\ crc16(call.trace.x3_bytes) = h.payload_crc
        /\ (/\ call.trace.payload_read
            /\ crc16(SubSeq(file, start + 1, start + h.payload_len)) # h.payload_crc) =>
             /\ call.res = Err("FrameHeaderInvalidPayloadCRC")
             /\ ~call.trace.decoded

\* A second or later frame was handed to the decoder: read_buf held the
\* bytes of an earlier frame when the call began.
C2_Witness == call.n >= 2 /\ call.trace.decoded /\ call.res.tag = "Ok"

\* C3: every frame whose header parses and whose payload_len exceeds
\* X3_READ_BUFFER_SIZE makes decode_next_frame fail with
\* FrameHeaderInvalidPayloadLen, however many bytes the file still holds.
C3_OversizeFrameRejected ==
  (/\ call.n > 0
   /\ call.trace.header.tag = "Ok"
   /\ call.trace.header.val.payload_len > X3_READ_BUFFER_SIZE) =>
    call.res = Err("FrameHeaderInvalidPayloadLen")

\* The last call met a frame-level error: a bad magic, a header or payload
\* CRC mismatch, a payload_len over the capacity, or an error of the decoder.
FrameLevelError ==
  \/ /\ call.res.tag = "Err"
     /\ call.res.val \in {"FrameHeaderBadMagic", "FrameHeaderInvalidHeaderCRC",
                          "FrameHeaderInvalidPayloadCRC", "FrameHeaderInvalidPayloadLen"}
  \/ call.trace.decode_res.tag = "Err"

\* C4: a decode_next_frame call in which the frame fails with a frame-level
\* error adds exactly one to frame_errors and does not return the error as
\* an Err; every other call leaves frame_errors as it was.
C4_FrameErrorsCounted ==
  call.n > 0 =>
    IF FrameLevelError
      THEN frame_errors = call.before.frame_errors + 1 /\ call.res.tag = "Ok"
      ELSE frame_errors = call.before.frame_errors

\* kinds is a list of two or more frames, all good but one, which is not
\* the last and has a corrupted payload or fails in the decoder.
OneBadFrame(kinds) ==
  /\ Len(kinds) >= 2
  /\ \E k \in 1..(Len(kinds) - 1) :
       /\ kinds[k] \in {"payload_crc", "short"}
       /\ \A j \in 1..Len(kinds) : j # k => kinds[j] = "good"

\* C5: of an archive of N frames of which exactly one, not the last, has a
\* corrupted payload or fails in the decoder, x3a_to_wav drops that frame
\* alone: it returns Ok, has counted one frame error and has written the
\* samples of the N - 1 good frames.
C5_OnlyTheBadFrameDropped ==
  \A kinds \in FrameLists :
    (/\ pc = "done"
     /\ xml = GoodDoc
     /\ OneBadFrame(kinds)
     /\ file = ArchiveHead(ArchiveID) \o Frames(kinds)) =>
      /\ ret = Ok("unit")
      /\ frame_errors = 1
      /\ Len(wav) = Len(kinds) - 1
      /\ \A i \in 1..Len(wav) : wav[i].samples = 2

\* C6: the size read_archive_header returns is the number of bytes it
\* consumed, so that after open, and after every decode_next_frame call that
\* returns Ok, remaing_bytes is the number of bytes of the file not yet read.
C6_RemaingBytesIsUnread ==
  (pc = "loop" \/ (pc = "done" /\ call.n > 0 /\ call.res.tag = "Ok")) =>
    remaing_bytes = Len(file) - pos

\* The unread part of the file held less than a complete frame when the
\* last call began: under 20 bytes, or a valid header and fewer bytes after
\* it than its payload_len.
IncompleteFrame ==
  LET unread == Len(file) - call.before.pos
  IN  \/ unread < LENGTH
      \/ /\ HeaderAt(call.before.pos).tag = "Ok"
         /\ HeaderAt(call.before.pos).val.payload_len > unread - LENGTH

\* C9: a file that ends in the middle of a frame is a clean end of stream:
\* a decode_next_frame call that finds less than a complete frame unread
\* returns Ok(None), and x3a_to_wav returns Ok(()).
C9_TruncatedFileEndsCleanly ==
  (call.n > 0 /\ IncompleteFrame) =>
    /\ call.res = Ok(None)
    /\ pc = "done" /\ ret = Ok("unit")

\* One turn of the loop, for C10.
C10_Turn ==
  pc = "loop" =>
    /\ remaing_bytes' <= remaing_bytes
    /\ remaing_bytes' >= 0
    /\ pc' = "loop" => (call'.res.tag = "Ok" /\ call'.res.val.some
                        /\ remaing_bytes' + LENGTH <= remaing_bytes)
    /\ remaing_bytes <= LENGTH =>
         /\ call'.res = Ok(None)
         /\ pc' = "done"
         /\ UNCHANGED << pos, remaing_bytes, read_buf, frame_errors, spec >>

\* C10: the loop of x3a_to_wav ends for every archive: remaing_bytes never
\* grows and never falls below zero, a call that returns Ok(Some(n)) lowers
\* it by at least the 20 bytes of a header, a call made with remaing_bytes
\* <= 20 returns Ok(None) and leaves the reader as it was, and x3a_to_wav
\* returns in the end.
C10_LoopTerminates == [][C10_Turn]_vars /\ <>(pc = "done")

\* The loop decoded two frames and then ended on remaing_bytes <= 20.
C10_Witness ==
  /\ pc = "done" /\ Len(wav) >= 2
  /\ call.res = Ok(None) /\ call.before.remaing_bytes <= LENGTH


=============================================================================
